---- MODULE Spec2Model ----
(***************************************************************************)
(* A model of xray's screenshot test engine (src/src/lib.rs): the image    *)
(* comparator, the diff engine and the orchestration of one call of        *)
(* screenshot_test over a capture port and a storage port.                 *)
(***************************************************************************)
EXTENDS Integers, Sequences, FiniteSets, TLC

VARIABLES
    pc,               \* the position inside screenshot_test / handle_screenshot_error
    captured_image,   \* Option: the image capture_image returned (lib.rs:288)
    reference_image,  \* Option: the image load_reference returned (lib.rs:290)
    result,           \* Option: the Result flowing through the combinator chain; the return value at "done"
    diff,             \* Option: the image diff_images built (lib.rs:274)
    calls,            \* the port calls made so far, in order, with argument and return value
    wrapper,          \* Option: how assert_screenshot_test ended, "panic" or "return" (lib.rs:307-312)
    fs,               \* the filesystem the FsScreenshotIo ports work on: path -> directory or file
    ios,              \* the FsScreenshotIo ports in use (lib.rs:130-134)
    runs              \* the invocations of screenshot_test that use those ports, one per port

vars == <<pc, captured_image, reference_image, result, diff, calls, wrapper, fs, ios, runs>>


----------------------------------------------------------------------------
(* Bounds of the model *)

\* the largest number of pixels (width * height) of a modelled image
MaxArea == 4

----------------------------------------------------------------------------
(* Values *)

None == <<>>
Some(v) == <<v>>

\* Rgba { data: [0, 0, 0, 0] }
TransparentBlack == <<0, 0, 0, 0>>

\* the opaque red of the tests' images
Red == <<255, 0, 0, 255>>

\* the pixel values the modelled images are built from
Pixels == {TransparentBlack, Red}

\* Result<(), XrayError> and Result<DynamicImage, XrayError>
OkUnit == [kind |-> "Ok"]
OkImage(img) == [kind |-> "Ok", value |-> img]
Err(e) == [kind |-> "Err", error |-> e]
IsOk(r) == r.kind = "Ok"
IsErr(r) == r.kind = "Err"

\* enum XrayError, with IoError and ScreenshotError flattened into it
CaptureError == [type |-> "CaptureError"]
Io(name) == [type |-> "Io", io |-> name]
NoReferenceScreenshot(img) == [type |-> "NoReferenceScreenshot", img |-> img]
ScreenshotMismatch(actual, expected) ==
    [type |-> "ScreenshotMismatch", actual |-> actual, expected |-> expected]

\* enum IoError: the errors a storage port reports
IoErrors ==
    {Io("OutputLocationUnavailable"), Io("FailedWritingScreenshot"),
     Io("FailedLoadingReferenceImage")}

\* what load_reference may fail with: any XrayError of the port's choosing
LoadErrors == IoErrors \cup {CaptureError}

----------------------------------------------------------------------------
(* Image Value: an RGBA raster, width * height * 4 bytes, row-major *)

\* ImageBuffer::from_fn(width, height, f): f gives the pixel at each (x, y); byte i
\* belongs to pixel k = (i-1) \div 4, at column k % width and row k \div width
FromFn(width, height, f) ==
    [width |-> width, height |-> height,
     data |-> [i \in 1..(4 * width * height) |->
                 f[((i - 1) \div 4) % width, ((i - 1) \div 4) \div width][((i - 1) % 4) + 1]]]

\* ImageBuffer::from_vec(width, height, bytes), given the pixels in row-major order
FromPixels(width, height, px) ==
    [width |-> width, height |-> height,
     data |-> [i \in 1..(4 * width * height) |-> px[((i - 1) \div 4) + 1][((i - 1) % 4) + 1]]]

Dims == {d \in (0..MaxArea) \X (0..MaxArea) : d[1] * d[2] <= MaxArea}

\* the images of width d[1] and height d[2]
ImagesOf(d) == {FromPixels(d[1], d[2], px) : px \in [1..(d[1] * d[2]) -> Pixels]}

Images == UNION {ImagesOf(d) : d \in Dims}

raw_pixels(img) == img.data

in_bounds(img, x, y) == x < img.width /\ y < img.height

get_pixel(img, x, y) ==
    LET base == 4 * (y * img.width + x)
    IN  <<img.data[base + 1], img.data[base + 2], img.data[base + 3], img.data[base + 4]>>

----------------------------------------------------------------------------
(* Comparator and diff engine *)

\* mutant: the branches of the comparison swapped
compare_screenshot_images_Swapped(reference, actual) ==
    IF raw_pixels(reference) # raw_pixels(actual)
    THEN OkUnit
    ELSE Err(ScreenshotMismatch(actual, reference))

\* mutant: an empty buffer never matches
compare_screenshot_images_EmptyMismatch(reference, actual) ==
    IF raw_pixels(reference) # <<>> /\ raw_pixels(reference) = raw_pixels(actual)
    THEN OkUnit
    ELSE Err(ScreenshotMismatch(actual, reference))

compare_screenshot_images(reference, actual) ==
    IF raw_pixels(reference) = raw_pixels(actual)
    THEN OkUnit
    ELSE Err(ScreenshotMismatch(actual, reference))

\* mutant: pixels outside expected's bounds are skipped instead of compared
\* with transparent black
diff_images_SkipsOutside(actual, expected) ==
    LET pixel == [x \in 0..(actual.width - 1), y \in 0..(actual.height - 1) |->
            LET actual_pixel == get_pixel(actual, x, y)
                expected_pixel == IF in_bounds(expected, x, y)
                                  THEN get_pixel(expected, x, y)
                                  ELSE actual_pixel
            IN  IF actual_pixel = expected_pixel THEN TransparentBlack ELSE actual_pixel]
    IN  FromFn(actual.width, actual.height, pixel)

\* mutant: a differing pixel is copied from expected instead of actual
diff_images_CopiesExpected(actual, expected) ==
    LET pixel == [x \in 0..(actual.width - 1), y \in 0..(actual.height - 1) |->
            LET actual_pixel == get_pixel(actual, x, y)
                expected_pixel == IF in_bounds(expected, x, y)
                                  THEN get_pixel(expected, x, y)
                                  ELSE TransparentBlack
            IN  IF actual_pixel = expected_pixel THEN TransparentBlack ELSE expected_pixel]
    IN  FromFn(actual.width, actual.height, pixel)

\* mutant: a matching pixel becomes opaque black instead of transparent black
diff_images_OpaqueBlack(actual, expected) ==
    LET pixel == [x \in 0..(actual.width - 1), y \in 0..(actual.height - 1) |->
            LET actual_pixel == get_pixel(actual, x, y)
                expected_pixel == IF in_bounds(expected, x, y)
                                  THEN get_pixel(expected, x, y)
                                  ELSE TransparentBlack
            IN  IF actual_pixel = expected_pixel THEN <<0, 0, 0, 255>> ELSE actual_pixel]
    IN  FromFn(actual.width, actual.height, pixel)

diff_images(actual, expected) ==
    LET pixel == [x \in 0..(actual.width - 1), y \in 0..(actual.height - 1) |->
            LET actual_pixel == get_pixel(actual, x, y)
                expected_pixel == IF in_bounds(expected, x, y)
                                  THEN get_pixel(expected, x, y)
                                  ELSE TransparentBlack
            IN  IF actual_pixel = expected_pixel THEN TransparentBlack ELSE actual_pixel]
    IN  FromFn(actual.width, actual.height, pixel)

----------------------------------------------------------------------------
(* One call of screenshot_test *)

Call(op, arg, ret) == [op |-> op, arg |-> arg, ret |-> ret]

\* what a storage operation returning Result<(), XrayError> may return
UnitReturns == {OkUnit} \cup {Err(e) : e \in IoErrors}

Init ==
    /\ pc = "capture_image"
    /\ captured_image = None
    /\ reference_image = None
    /\ result = None
    /\ diff = None
    /\ calls = <<>>
    /\ wrapper = None
    /\ fs = None /\ ios = <<>> /\ runs = <<>>

\* lib.rs:287: screenshot_captor.capture_image(x, y, width, height); a captor that
\* succeeds returns an image of the region's width and height (lib.rs:158)
CaptureImage ==
    /\ pc = "capture_image"
    /\ \E region \in Dims :
       \E ret \in {OkImage(img) : img \in ImagesOf(region)} \cup {Err(CaptureError)} :
        /\ calls' = Append(calls, Call("capture_image", Some(region), ret))
        /\ result' = Some(ret)
        /\ IF IsOk(ret)
           THEN captured_image' = Some(ret.value) /\ pc' = "load_reference"
           ELSE captured_image' = None /\ pc' = "prepare_output"
    /\ UNCHANGED <<reference_image, diff, wrapper, fs, ios, runs>>

\* mutant: the error of load_reference is passed on instead of being replaced by
\* NoReferenceScreenshot
LoadReference_PassesErrorOn ==
    /\ pc = "load_reference"
    /\ \E ret \in {OkImage(img) : img \in Images} \cup {Err(e) : e \in LoadErrors} :
        /\ calls' = Append(calls, Call("load_reference", None, ret))
        /\ IF IsOk(ret)
           THEN /\ reference_image' = Some(ret.value)
                /\ result' = Some(OkUnit)
                /\ pc' = "compare"
           ELSE /\ reference_image' = None
                /\ result' = Some(ret)
                /\ pc' = "prepare_output"
    /\ UNCHANGED <<captured_image, diff, wrapper, fs, ios, runs>>

\* mutant: a failed load_reference is tried again
LoadReference_Retries ==
    /\ pc = "load_reference"
    /\ \E ret \in {OkImage(img) : img \in Images} \cup {Err(e) : e \in LoadErrors} :
        /\ calls' = Append(calls, Call("load_reference", None, ret))
        /\ IF IsOk(ret)
           THEN /\ reference_image' = Some(ret.value)
                /\ result' = Some(OkUnit)
                /\ pc' = "compare"
           ELSE /\ reference_image' = None
                /\ UNCHANGED result
                /\ pc' = "load_reference"
    /\ UNCHANGED <<captured_image, diff, wrapper, fs, ios, runs>>

\* lib.rs:288-293: the first and_then closure
LoadReference ==
    /\ pc = "load_reference"
    /\ \E ret \in {OkImage(img) : img \in Images} \cup {Err(e) : e \in LoadErrors} :
        /\ calls' = Append(calls, Call("load_reference", None, ret))
        /\ IF IsOk(ret)
           THEN /\ reference_image' = Some(ret.value)
                /\ result' = Some(OkUnit)
                /\ pc' = "compare"
           ELSE /\ reference_image' = None
                /\ result' = Some(Err(NoReferenceScreenshot(captured_image[1])))
                /\ pc' = "prepare_output"
    /\ UNCHANGED <<captured_image, diff, wrapper, fs, ios, runs>>

\* lib.rs:294-297: the second and_then closure
Compare ==
    /\ pc = "compare"
    /\ LET r == compare_screenshot_images(reference_image[1], captured_image[1])
       IN  /\ result' = Some(r)
           /\ pc' = IF IsOk(r) THEN "done" ELSE "prepare_output"
    /\ UNCHANGED <<captured_image, reference_image, diff, calls, wrapper, fs, ios, runs>>

\* mutant: the result of prepare_output is dropped (no `?`)
PrepareOutput_DropsResult ==
    /\ pc = "prepare_output"
    /\ \E ret \in UnitReturns :
        /\ calls' = Append(calls, Call("prepare_output", None, ret))
        /\ UNCHANGED result
        /\ pc' = CASE result[1].error.type = "NoReferenceScreenshot" -> "write_actual_only"
                   [] result[1].error.type = "ScreenshotMismatch" -> "write_expected"
                   [] OTHER -> "done"
    /\ UNCHANGED <<captured_image, reference_image, diff, wrapper, fs, ios, runs>>

\* lib.rs:266-267, 276-278: screenshot_io.prepare_output()?, then the match
PrepareOutput ==
    /\ pc = "prepare_output"
    /\ \E ret \in UnitReturns :
        /\ calls' = Append(calls, Call("prepare_output", None, ret))
        /\ IF IsErr(ret)
           THEN result' = Some(ret) /\ pc' = "done"
           ELSE /\ UNCHANGED result
                /\ pc' = CASE result[1].error.type = "NoReferenceScreenshot" -> "write_actual_only"
                           [] result[1].error.type = "ScreenshotMismatch" -> "write_expected"
                           [] OTHER -> "done"
    /\ UNCHANGED <<captured_image, reference_image, diff, wrapper, fs, ios, runs>>

\* mutant: the result of write_actual is dropped (no `?`), so the comparison
\* outcome is returned although the write failed
WriteActualOnly_DropsResult ==
    /\ pc = "write_actual_only"
    /\ \E ret \in UnitReturns :
        /\ calls' = Append(calls, Call("write_actual", Some(result[1].error.img), ret))
        /\ UNCHANGED result
        /\ pc' = "done"
    /\ UNCHANGED <<captured_image, reference_image, diff, wrapper, fs, ios, runs>>

\* lib.rs:268-270: the NoReferenceScreenshot arm
WriteActualOnly ==
    /\ pc = "write_actual_only"
    /\ \E ret \in UnitReturns :
        /\ calls' = Append(calls, Call("write_actual", Some(result[1].error.img), ret))
        /\ IF IsErr(ret) THEN result' = Some(ret) ELSE UNCHANGED result
        /\ pc' = "done"
    /\ UNCHANGED <<captured_image, reference_image, diff, wrapper, fs, ios, runs>>

\* mutant: the result of write_expected is dropped (no `?`)
WriteExpected_DropsResult ==
    /\ pc = "write_expected"
    /\ \E ret \in UnitReturns :
        /\ calls' = Append(calls, Call("write_expected", Some(result[1].error.expected), ret))
        /\ UNCHANGED result
        /\ pc' = "write_actual"
    /\ UNCHANGED <<captured_image, reference_image, diff, wrapper, fs, ios, runs>>

\* lib.rs:272: screenshot_io.write_expected(&expected)?
WriteExpected ==
    /\ pc = "write_expected"
    /\ \E ret \in UnitReturns :
        /\ calls' = Append(calls, Call("write_expected", Some(result[1].error.expected), ret))
        /\ IF IsErr(ret)
           THEN result' = Some(ret) /\ pc' = "done"
           ELSE UNCHANGED result /\ pc' = "write_actual"
    /\ UNCHANGED <<captured_image, reference_image, diff, wrapper, fs, ios, runs>>

\* mutant: the result of write_actual is dropped (no `?`)
WriteActual_DropsResult ==
    /\ pc = "write_actual"
    /\ \E ret \in UnitReturns :
        /\ calls' = Append(calls, Call("write_actual", Some(result[1].error.actual), ret))
        /\ UNCHANGED result
        /\ pc' = "write_diff"
    /\ UNCHANGED <<captured_image, reference_image, diff, wrapper, fs, ios, runs>>

\* lib.rs:273: screenshot_io.write_actual(&actual)?
WriteActual ==
    /\ pc = "write_actual"
    /\ \E ret \in UnitReturns :
        /\ calls' = Append(calls, Call("write_actual", Some(result[1].error.actual), ret))
        /\ IF IsErr(ret)
           THEN result' = Some(ret) /\ pc' = "done"
           ELSE UNCHANGED result /\ pc' = "write_diff"
    /\ UNCHANGED <<captured_image, reference_image, diff, wrapper, fs, ios, runs>>

\* mutant: the arguments of diff_images swapped
WriteDiff_SwapsArguments ==
    /\ pc = "write_diff"
    /\ LET d == diff_images(result[1].error.expected, result[1].error.actual)
       IN  /\ diff' = Some(d)
           /\ \E ret \in UnitReturns :
                /\ calls' = Append(calls, Call("write_diff", Some(d), ret))
                /\ IF IsErr(ret) THEN result' = Some(ret) ELSE UNCHANGED result
    /\ pc' = "done"
    /\ UNCHANGED <<captured_image, reference_image, wrapper, fs, ios, runs>>

\* mutant: handle_screenshot_error ends in Ok(()) instead of Err(screenshot_error)
WriteDiff_ReturnsOk ==
    /\ pc = "write_diff"
    /\ LET d == diff_images(result[1].error.actual, result[1].error.expected)
       IN  /\ diff' = Some(d)
           /\ \E ret \in UnitReturns :
                /\ calls' = Append(calls, Call("write_diff", Some(d), ret))
                /\ result' = Some(ret)
    /\ pc' = "done"
    /\ UNCHANGED <<captured_image, reference_image, wrapper, fs, ios, runs>>

\* mutant: the actual image is written once more after the diff
WriteDiff_WritesActualAgain ==
    /\ pc = "write_diff"
    /\ LET d == diff_images(result[1].error.actual, result[1].error.expected)
       IN  /\ diff' = Some(d)
           /\ \E ret \in UnitReturns :
                /\ calls' = Append(calls, Call("write_diff", Some(d), ret))
                /\ IF IsErr(ret)
                   THEN result' = Some(ret) /\ pc' = "done"
                   ELSE /\ result' = Some(Err(NoReferenceScreenshot(result[1].error.actual)))
                        /\ pc' = "write_actual_only"
    /\ UNCHANGED <<captured_image, reference_image, wrapper, fs, ios, runs>>

\* lib.rs:274: screenshot_io.write_diff(&diff_images(&actual, &expected))?
WriteDiff ==
    /\ pc = "write_diff"
    /\ LET d == diff_images(result[1].error.actual, result[1].error.expected)
       IN  /\ diff' = Some(d)
           /\ \E ret \in UnitReturns :
                /\ calls' = Append(calls, Call("write_diff", Some(d), ret))
                /\ IF IsErr(ret) THEN result' = Some(ret) ELSE UNCHANGED result
    /\ pc' = "done"
    /\ UNCHANGED <<captured_image, reference_image, wrapper, fs, ios, runs>>

\* mutant: the test of the result inverted (is_ok for is_err)
AssertScreenshotTest_PanicsOnOk ==
    /\ pc = "done"
    /\ wrapper = None
    /\ wrapper' = Some(IF IsOk(result[1]) THEN "panic" ELSE "return")
    /\ UNCHANGED <<pc, captured_image, reference_image, result, diff, calls, fs, ios, runs>>

\* lib.rs:307-312: assert_screenshot_test, once its call of screenshot_test returned
AssertScreenshotTest ==
    /\ pc = "done"
    /\ wrapper = None
    /\ wrapper' = Some(IF IsErr(result[1]) THEN "panic" ELSE "return")
    /\ UNCHANGED <<pc, captured_image, reference_image, result, diff, calls, fs, ios, runs>>

Next ==
    \/ CaptureImage
    \/ LoadReference
    \/ Compare
    \/ PrepareOutput
    \/ WriteActualOnly
    \/ WriteExpected
    \/ WriteActual
    \/ WriteDiff
    \/ AssertScreenshotTest

Spec == Init /\ [][Next]_vars

\* every port call returns and the sequential code goes on to its next step
LiveSpec == Spec /\ WF_vars(Next)

----------------------------------------------------------------------------
(* The comparator and the diff engine applied to every pair of images *)

FnInit ==
    /\ pc = "fn"
    /\ \E a \in Images : captured_image = Some(a)
    /\ \E e \in Images : reference_image = Some(e)
    /\ result = None
    /\ diff = None
    /\ calls = <<>>
    /\ wrapper = None
    /\ fs = None /\ ios = <<>> /\ runs = <<>>

ApplyCompare ==
    /\ pc = "fn"
    /\ result = None
    /\ result' = Some(compare_screenshot_images(reference_image[1], captured_image[1]))
    /\ UNCHANGED <<pc, captured_image, reference_image, diff, calls, wrapper, fs, ios, runs>>

ApplyDiff ==
    /\ pc = "fn"
    /\ diff = None
    /\ diff' = Some(diff_images(captured_image[1], reference_image[1]))
    /\ UNCHANGED <<pc, captured_image, reference_image, result, calls, wrapper, fs, ios, runs>>

FnNext ==
    \/ ApplyCompare
    \/ ApplyDiff

FnSpec == FnInit /\ [][FnNext]_vars

----------------------------------------------------------------------------
(* Reading the log of port calls *)

StorageOutputOps == {"prepare_output", "write_actual", "write_expected", "write_diff"}
WriteOps == {"write_actual", "write_expected", "write_diff"}

CallsOf(ops) == SelectSeq(calls, LAMBDA c : c.op \in ops)
OpsCalled(ops) == [i \in 1..Len(CallsOf(ops)) |-> CallsOf(ops)[i].op]
NoCallOf(ops) == CallsOf(ops) = <<>>
AllOk(ops) == \A i \in 1..Len(calls) : calls[i].op \in ops => IsOk(calls[i].ret)

CaptureFailed == \E i \in 1..Len(calls) : calls[i].op = "capture_image" /\ IsErr(calls[i].ret)
LoadFailed == \E i \in 1..Len(calls) : calls[i].op = "load_reference" /\ IsErr(calls[i].ret)
Running == pc # "fn"

\* the pixel coordinates of an image
Coords(img) == (0..(img.width - 1)) \X (0..(img.height - 1))
SameDims(a, b) == a.width = b.width /\ a.height = b.height

----------------------------------------------------------------------------
(* C1..C5: the orchestrator's scenarios *)

\* C1: when capture_image returns X, load_reference returns Y, X and Y differ and
\* every storage operation succeeds, the call returns ScreenshotMismatch(X, Y) and
\* the writes are exactly write_expected, write_actual, write_diff, in that order.
C1_MismatchScenario ==
    (/\ Running /\ pc = "done"
     /\ captured_image # None /\ reference_image # None
     /\ captured_image[1] # reference_image[1]
     /\ AllOk(StorageOutputOps))
    => /\ result = Some(Err(ScreenshotMismatch(captured_image[1], reference_image[1])))
       /\ OpsCalled(WriteOps) = <<"write_expected", "write_actual", "write_diff">>

\* C2: when capture_image succeeds and load_reference fails, write_expected and
\* write_diff are never called and write_actual at most once; if prepare_output and
\* write_actual succeed, the result is NoReferenceScreenshot carrying the captured
\* image (not the load error) and write_actual was called once, with that image.
C2_ReferenceMissing ==
    (Running /\ captured_image # None /\ LoadFailed)
    => /\ NoCallOf({"write_expected", "write_diff"})
       /\ Len(CallsOf({"write_actual"})) <= 1
       /\ (pc = "done" /\ AllOk(StorageOutputOps))
          => /\ result = Some(Err(NoReferenceScreenshot(captured_image[1])))
             /\ CallsOf(WriteOps) = <<Call("write_actual", captured_image, OkUnit)>>
             /\ Len(CallsOf({"prepare_output"})) = 1

C2_Witness ==
    /\ pc = "done" /\ LoadFailed
    /\ captured_image # None /\ captured_image[1].width = 2
    /\ result = Some(Err(NoReferenceScreenshot(captured_image[1])))
    /\ Len(CallsOf({"write_actual"})) = 1

\* C3: when load_reference returns an image identical to the captured one, no
\* storage output operation is ever called and the call returns Ok.
C3_MatchScenario ==
    (Running /\ reference_image # None /\ reference_image = captured_image)
    => /\ NoCallOf(StorageOutputOps)
       /\ pc \in {"compare", "done"}
       /\ pc = "done" => result = Some(OkUnit)

C3_Witness ==
    /\ pc = "done" /\ result = Some(OkUnit)
    /\ reference_image # None /\ reference_image = captured_image
    /\ captured_image[1].width = 2 /\ captured_image[1].height = 2
    /\ get_pixel(captured_image[1], 1, 0) = Red

C5_CaptureFailureReported ==
    (Running /\ pc = "done" /\ CaptureFailed) => result = Some(Err(CaptureError))

----------------------------------------------------------------------------
(* C6..C9: the comparator and the diff engine, checked under FnSpec, where     *)
(* captured_image is the actual image and reference_image the expected one     *)

\* the pixel diff_images is documented to compare actual's pixel with
ExpectedOrTransparent(expected, x, y) ==
    IF x < expected.width /\ y < expected.height
    THEN get_pixel(expected, x, y)
    ELSE TransparentBlack

\* C6: compare_screenshot_images(R, A) returns Ok if and only if R and A have the
\* same width, the same height and the same bytes, and ScreenshotMismatch otherwise.
C6_CompareIffIdentical ==
    (pc = "fn" /\ result # None)
    => LET R == reference_image[1]
           A == captured_image[1]
       IN  /\ IsOk(result[1]) <=> (SameDims(R, A) /\ R.data = A.data)
           /\ IsErr(result[1]) => result[1] = Err(ScreenshotMismatch(A, R))

\* C7: diff_images(actual, expected) has actual's width and height; its pixel at
\* (x, y) is (0,0,0,0) where actual's pixel equals expected's (taken as (0,0,0,0)
\* outside expected's bounds) and actual's pixel otherwise, so every pixel of
\* actual outside expected's bounds is copied.
C7_DiffPixelRule ==
    (pc = "fn" /\ diff # None)
    => LET A == captured_image[1]
           E == reference_image[1]
           D == diff[1]
       IN  /\ SameDims(D, A)
           /\ Len(D.data) = 4 * A.width * A.height
           /\ \A c \in Coords(A) :
                /\ get_pixel(D, c[1], c[2]) =
                     IF get_pixel(A, c[1], c[2]) = ExpectedOrTransparent(E, c[1], c[2])
                     THEN TransparentBlack
                     ELSE get_pixel(A, c[1], c[2])
                /\ ~(c[1] < E.width /\ c[2] < E.height)
                     => get_pixel(D, c[1], c[2]) = get_pixel(A, c[1], c[2])

C7_Witness ==
    /\ pc = "fn" /\ diff # None
    /\ captured_image[1].width = 2 /\ captured_image[1].height = 2
    /\ reference_image[1].width = 1 /\ reference_image[1].height = 2
    /\ get_pixel(captured_image[1], 0, 0) = Red /\ get_pixel(reference_image[1], 0, 0) = Red
    /\ get_pixel(captured_image[1], 1, 1) = Red
    /\ get_pixel(diff[1], 0, 0) = TransparentBlack
    /\ get_pixel(diff[1], 1, 1) = Red

\* C8 as stated: for images A and B of equal dimensions that differ in a pixel,
\* diff_images(A, B) has a pixel that is not (0,0,0,0), and its pixels that are
\* not (0,0,0,0) are exactly at the coordinates where A and B differ, with A's value.
C8_DiffMarksEveryDifference ==
    (pc = "fn" /\ diff # None
     /\ SameDims(captured_image[1], reference_image[1])
     /\ captured_image[1].data # reference_image[1].data)
    => LET A == captured_image[1]
           B == reference_image[1]
           D == diff[1]
       IN  /\ \E c \in Coords(A) : get_pixel(D, c[1], c[2]) # TransparentBlack
           /\ \A c \in Coords(A) :
                /\ get_pixel(D, c[1], c[2]) # TransparentBlack
                     <=> get_pixel(A, c[1], c[2]) # get_pixel(B, c[1], c[2])
                /\ get_pixel(A, c[1], c[2]) # get_pixel(B, c[1], c[2])
                     => get_pixel(D, c[1], c[2]) = get_pixel(A, c[1], c[2])

\* C8 as amended: for images A and B of equal dimensions that differ in a pixel,
\* the pixels of diff_images(A, B) that are not (0,0,0,0) are exactly at the
\* coordinates where A and B differ and A's pixel is not (0,0,0,0), and at every
\* differing coordinate the diff has A's value (which may be (0,0,0,0)).
C8_DiffMarksVisibleDifferences ==
    (pc = "fn" /\ diff # None
     /\ SameDims(captured_image[1], reference_image[1])
     /\ captured_image[1].data # reference_image[1].data)
    => LET A == captured_image[1]
           B == reference_image[1]
           D == diff[1]
       IN  \A c \in Coords(A) :
                /\ get_pixel(D, c[1], c[2]) # TransparentBlack
                     <=> /\ get_pixel(A, c[1], c[2]) # get_pixel(B, c[1], c[2])
                         /\ get_pixel(A, c[1], c[2]) # TransparentBlack
                /\ get_pixel(A, c[1], c[2]) # get_pixel(B, c[1], c[2])
                     => get_pixel(D, c[1], c[2]) = get_pixel(A, c[1], c[2])

C8_Witness ==
    /\ pc = "fn" /\ diff # None
    /\ SameDims(captured_image[1], reference_image[1])
    /\ captured_image[1].width = 2 /\ captured_image[1].height = 2
    /\ get_pixel(captured_image[1], 0, 0) = Red /\ get_pixel(reference_image[1], 0, 0) = Red
    /\ get_pixel(captured_image[1], 1, 0) = Red
    /\ get_pixel(reference_image[1], 1, 0) = TransparentBlack
    /\ get_pixel(captured_image[1], 0, 1) = TransparentBlack
    /\ get_pixel(reference_image[1], 0, 1) = Red
    /\ get_pixel(diff[1], 1, 0) = Red
    /\ get_pixel(diff[1], 0, 1) = TransparentBlack

\* C9: diff_images(A, A) has A's width and height and every byte of it is 0.
C9_DiffOfSelfIsTransparent ==
    (pc = "fn" /\ diff # None /\ captured_image = reference_image)
    => /\ SameDims(diff[1], captured_image[1])
       /\ diff[1].data = [i \in 1..(4 * captured_image[1].width * captured_image[1].height) |-> 0]

C9_Witness ==
    /\ pc = "fn" /\ diff # None /\ captured_image = reference_image
    /\ captured_image[1].width = 2 /\ captured_image[1].height = 2
    /\ get_pixel(captured_image[1], 0, 1) = Red
    /\ get_pixel(diff[1], 0, 1) = TransparentBlack

----------------------------------------------------------------------------
(* C10: artifact writes after a mismatch *)

FailedCallOf(op) == \E i \in 1..Len(calls) : calls[i].op = op /\ IsErr(calls[i].ret)
FirstFailure(ops) ==
    LET failed == SelectSeq(calls, LAMBDA c : c.op \in ops /\ IsErr(c.ret))
    IN  IF failed = <<>> THEN None ELSE Some(failed[1].ret)

\* C10 as stated: after a mismatch, a failed write_expected is still followed by
\* write_actual and write_diff, a failed write_actual by write_diff, and the call
\* returns the first failure.
C10_BestEffortWrites ==
    (Running /\ pc = "done" /\ reference_image # None)
    => /\ FailedCallOf("write_expected")
            => ~NoCallOf({"write_actual"}) /\ ~NoCallOf({"write_diff"})
       /\ FailedCallOf("write_actual") => ~NoCallOf({"write_diff"})
       /\ FirstFailure(WriteOps) # None => result = FirstFailure(WriteOps)

\* C10 as amended: after a mismatch, a failing write ends the sequence: it is the
\* last port call of the invocation (a failed write_expected is followed by neither
\* write_actual nor write_diff, a failed write_actual not by write_diff), and the
\* call returns that failure.
C10_FailFastWrites ==
    (Running /\ reference_image # None)
    => \A i \in 1..Len(calls) :
         (calls[i].op \in WriteOps /\ IsErr(calls[i].ret))
         => /\ i = Len(calls)
            /\ pc = "done"
            /\ result = Some(calls[i].ret)

C10_Witness ==
    /\ pc = "done" /\ reference_image # None
    /\ FailedCallOf("write_expected")
    /\ NoCallOf({"write_actual", "write_diff"})
    /\ result = Some(Err(Io("FailedWritingScreenshot")))
    /\ captured_image[1].width = 2

----------------------------------------------------------------------------
(* C11..C13: what the caller receives *)

\* the comparison outcome failure handling was entered with
ComparisonOutcome ==
    IF reference_image = None
    THEN Err(NoReferenceScreenshot(captured_image[1]))
    ELSE Err(ScreenshotMismatch(captured_image[1], reference_image[1]))

\* failure handling ran for a NoReference or Mismatch outcome
HandlingComparisonFailure == captured_image # None /\ ~NoCallOf({"prepare_output"})

\* C11: when failure handling of a NoReference or Mismatch outcome has ended, the
\* call returns the first error prepare_output or a write_* returned, if any did,
\* and the comparison outcome only if prepare_output and every write succeeded.
C11_IoFailureSupersedes ==
    (Running /\ pc = "done" /\ HandlingComparisonFailure)
    => /\ FirstFailure(StorageOutputOps) # None => result = FirstFailure(StorageOutputOps)
       /\ FirstFailure(StorageOutputOps) = None => result = Some(ComparisonOutcome)
       /\ result = Some(ComparisonOutcome) <=> AllOk(StorageOutputOps)

C11_Witness ==
    /\ pc = "done" /\ HandlingComparisonFailure
    /\ reference_image = None
    /\ captured_image[1].width = 2
    /\ FailedCallOf("write_actual")
    /\ result = Some(Err(Io("FailedWritingScreenshot")))

\* C12: assert_screenshot_test panics exactly when its call of screenshot_test
\* returned an error and returns normally when it returned Ok; it makes no port
\* call of its own and leaves the result as it is.
C12_AssertPanicsIffError ==
    [][/\ (wrapper = None /\ wrapper' # None)
            => /\ pc = "done"
               /\ wrapper'[1] = "panic" <=> IsErr(result[1])
               /\ wrapper'[1] = "return" <=> result = Some(OkUnit)
               /\ calls' = calls /\ result' = result
       /\ wrapper # None => (calls' = calls /\ wrapper' = wrapper)]_vars

C12_Witness ==
    /\ wrapper = Some("panic")
    /\ reference_image # None /\ captured_image[1].width = 2 /\ captured_image[1].height = 2
    /\ result = Some(Err(ScreenshotMismatch(captured_image[1], reference_image[1])))
    /\ OpsCalled(WriteOps) = <<"write_expected", "write_actual", "write_diff">>

\* C13: the call returns Ok only if capture_image and load_reference succeeded and
\* the comparator found the byte buffers equal; when load_reference failed or the
\* comparator reported a mismatch, the call returns an error.
C13_NoFailureSwallowed ==
    (Running /\ pc = "done")
    => /\ result # None
       /\ result = Some(OkUnit)
            => /\ ~CaptureFailed /\ ~LoadFailed
               /\ captured_image # None /\ reference_image # None
               /\ compare_screenshot_images(reference_image[1], captured_image[1]) = OkUnit
               /\ NoCallOf(StorageOutputOps)
       /\ (captured_image # None
           /\ (LoadFailed \/ (reference_image # None
                              /\ raw_pixels(reference_image[1]) # raw_pixels(captured_image[1]))))
            => IsErr(result[1])

C13_Witness ==
    /\ pc = "done" /\ reference_image # None
    /\ captured_image[1].width = 1 /\ captured_image[1].height = 2
    /\ AllOk(StorageOutputOps)
    /\ Len(CallsOf({"write_diff"})) = 1
    /\ result = Some(Err(ScreenshotMismatch(captured_image[1], reference_image[1])))

----------------------------------------------------------------------------
(* C15..C19: the artifacts and the order of the port calls *)

\* the coordinates where two images of equal dimensions differ
DifferingCoords(a, b) == {c \in Coords(a) : get_pixel(a, c[1], c[2]) # get_pixel(b, c[1], c[2])}

\* every write_* call in the log received the image the mismatch handling passes it
WritesReceive(X, Y) ==
    \A i \in 1..Len(calls) :
        /\ calls[i].op = "write_expected" => calls[i].arg = Some(Y)
        /\ calls[i].op = "write_actual" => calls[i].arg = Some(X)
        /\ calls[i].op = "write_diff" => calls[i].arg = Some(diff_images(X, Y))

\* C15 as stated: with capture X and reference Y different from X, write_expected
\* receives Y, write_actual X and write_diff diff_images(X, Y); when X and Y differ
\* in exactly one pixel, the diff artifact has exactly one pixel that is not
\* (0,0,0,0), at that coordinate, with X's colour.
C15_DiffArtifactShowsThePixel ==
    (Running /\ captured_image # None /\ reference_image # None
     /\ captured_image # reference_image)
    => LET X == captured_image[1]
           Y == reference_image[1]
       IN  /\ WritesReceive(X, Y)
           /\ (SameDims(X, Y) /\ Cardinality(DifferingCoords(X, Y)) = 1)
                => \A i \in 1..Len(calls) :
                     calls[i].op = "write_diff"
                     => /\ {c \in Coords(X) :
                              get_pixel(calls[i].arg[1], c[1], c[2]) # TransparentBlack}
                           = DifferingCoords(X, Y)
                        /\ \A c \in DifferingCoords(X, Y) :
                              get_pixel(calls[i].arg[1], c[1], c[2]) = get_pixel(X, c[1], c[2])

\* C15 as amended: with capture X and reference Y different from X, write_expected
\* receives Y, write_actual X and write_diff diff_images(X, Y); when X and Y differ
\* in exactly one pixel, the diff artifact is (0,0,0,0) everywhere else and has X's
\* colour at that coordinate, so it has a pixel that is not (0,0,0,0) only if X's
\* pixel there is not (0,0,0,0).
C15_ArtifactContents ==
    (Running /\ captured_image # None /\ reference_image # None
     /\ captured_image # reference_image)
    => LET X == captured_image[1]
           Y == reference_image[1]
       IN  /\ WritesReceive(X, Y)
           /\ (SameDims(X, Y) /\ Cardinality(DifferingCoords(X, Y)) = 1)
                => \A i \in 1..Len(calls) :
                     calls[i].op = "write_diff"
                     => \A c \in Coords(X) :
                          get_pixel(calls[i].arg[1], c[1], c[2]) =
                            IF c \in DifferingCoords(X, Y)
                            THEN get_pixel(X, c[1], c[2])
                            ELSE TransparentBlack

C15_Witness ==
    /\ pc = "done" /\ reference_image # None
    /\ SameDims(captured_image[1], reference_image[1])
    /\ captured_image[1].width = 2 /\ captured_image[1].height = 2
    /\ DifferingCoords(captured_image[1], reference_image[1]) = {<<1, 0>>}
    /\ get_pixel(captured_image[1], 1, 0) = Red
    /\ get_pixel(captured_image[1], 0, 1) = Red
    /\ OpsCalled(WriteOps) = <<"write_expected", "write_actual", "write_diff">>
    /\ get_pixel(diff[1], 1, 0) = Red

\* C16: prepare_output is called at most once in an invocation, every write_* call
\* comes after a prepare_output call that returned Ok, and no write is attempted
\* once prepare_output failed.
C16_PrepareOutputOnceBeforeWrites ==
    Running
    => /\ Len(CallsOf({"prepare_output"})) <= 1
       /\ \A j \in 1..Len(calls) :
            calls[j].op \in WriteOps
            => \E i \in 1..(j - 1) : calls[i].op = "prepare_output" /\ IsOk(calls[i].ret)
       /\ FailedCallOf("prepare_output") => NoCallOf(WriteOps)

C16_Witness ==
    /\ pc = "done" /\ LoadFailed
    /\ OpsCalled(StorageOutputOps) = <<"prepare_output", "write_actual">>
    /\ captured_image[1].height = 2

PortOps ==
    {"capture_image", "load_reference", "prepare_output",
     "write_actual", "write_expected", "write_diff"}

\* C17: capture_image is the first port call and is made exactly once;
\* load_reference is called at most once, only right after a successful
\* capture_image and before every prepare_output and write_* call; no port
\* operation is called twice.
C17_StrictSequencingNoRetry ==
    Running
    => /\ calls # <<>> => calls[1].op = "capture_image"
       /\ pc # "capture_image" => Len(CallsOf({"capture_image"})) = 1
       /\ \A op \in PortOps : Len(CallsOf({op})) <= 1
       /\ \A i \in 1..Len(calls) :
            /\ calls[i].op \in PortOps
            /\ calls[i].op = "load_reference" => (i = 2 /\ IsOk(calls[1].ret))
            /\ (calls[i].op \in StorageOutputOps /\ captured_image # None) => i > 2

C17_Witness ==
    /\ pc = "done"
    /\ [i \in 1..Len(calls) |-> calls[i].op]
         = <<"capture_image", "load_reference", "prepare_output",
             "write_expected", "write_actual", "write_diff">>
    /\ FailedCallOf("write_diff")

\* C18: every storage operation that is followed by another port call returned Ok:
\* once prepare_output or a write_* call fails nothing more is called; write_actual
\* after a mismatch is called only if write_expected succeeded, and write_diff only
\* if write_expected and write_actual both succeeded.
C18_ShortCircuitOnFirstFailure ==
    Running
    => /\ \A i \in 1..(Len(calls) - 1) :
            calls[i].op \in StorageOutputOps => IsOk(calls[i].ret)
       /\ (reference_image # None /\ ~NoCallOf({"write_actual"}))
            => CallsOf({"write_expected"}) = <<Call("write_expected", reference_image, OkUnit)>>
       /\ ~NoCallOf({"write_diff"})
            => /\ CallsOf({"write_expected"}) = <<Call("write_expected", reference_image, OkUnit)>>
               /\ Len(CallsOf({"write_actual"})) = 1
               /\ IsOk(CallsOf({"write_actual"})[1].ret)

C18_Witness ==
    /\ pc = "done" /\ reference_image # None
    /\ captured_image[1].width = 2
    /\ OpsCalled(StorageOutputOps) = <<"prepare_output", "write_expected", "write_actual">>
    /\ FailedCallOf("write_actual")

Area(img) == img.width * img.height

\* C19: a capture of a region with width 0 or height 0 yields an image of the
\* region's dimensions with no bytes; with such a capture and an empty reference
\* the call returns Ok and no storage output operation is called; diff_images of
\* an empty actual image is the empty image of actual's dimensions.
C19_ZeroAreaRegions ==
    Running
    => /\ \A i \in 1..Len(calls) :
            (calls[i].op = "capture_image" /\ IsOk(calls[i].ret)
             /\ calls[i].arg[1][1] * calls[i].arg[1][2] = 0)
            => /\ calls[i].ret.value.data = <<>>
               /\ calls[i].ret.value.width = calls[i].arg[1][1]
               /\ calls[i].ret.value.height = calls[i].arg[1][2]
       /\ (captured_image # None /\ reference_image # None
           /\ Area(captured_image[1]) = 0 /\ Area(reference_image[1]) = 0)
            => /\ NoCallOf(StorageOutputOps)
               /\ pc \in {"compare", "done"}
               /\ pc = "done" => result = Some(OkUnit)
       /\ (diff # None /\ Area(captured_image[1]) = 0)
            => diff[1] = [width |-> captured_image[1].width,
                          height |-> captured_image[1].height, data |-> <<>>]

C19_Witness ==
    /\ pc = "done" /\ result = Some(OkUnit)
    /\ calls[1].arg = Some(<<0, 2>>)
    /\ captured_image[1].width = 0 /\ captured_image[1].height = 2
    /\ reference_image # None /\ Area(reference_image[1]) = 0
    /\ wrapper = Some("return")

----------------------------------------------------------------------------
(* The filesystem storage port, FsScreenshotIo (lib.rs:176-222).  A path is a   *)
(* sequence of components relative to the crate's top level, a component a      *)
(* sequence of name parts, so that "actual.png" is <<"actual", ".png">>.        *)

\* the largest number of prepare_output calls made in a row
MaxPrepareCalls == 3

\* Path::join, for a relative second path
join(base, rel) == base \o rel

parent(path) == SubSeq(path, 1, Len(path) - 1)

\* format!("{}.png", test_name): ".png" added to the last component
with_png(test_name) ==
    [test_name EXCEPT ![Len(test_name)] = Append(@, ".png")]

IsPrefix(p, q) == Len(p) <= Len(q) /\ SubSeq(q, 1, Len(p)) = p

Dir(writable) == [kind |-> "dir", writable |-> writable]
File(content) == [kind |-> "file", content |-> content]

\* ImageFormat::PNG written by write_to and read back by image::open
png_encode(img) ==
    [format |-> "png", width |-> img.width, height |-> img.height, rgba |-> img.data]
png_decode(content) ==
    IF content.format = "png"
    THEN OkImage([width |-> content.width, height |-> content.height, data |-> content.rgba])
    ELSE Err(Io("FailedLoadingReferenceImage"))

\* a file just created or truncated
Empty == [format |-> "empty"]

exists(f, path) == path \in DOMAIN f
is_dir(f, path) == exists(f, path) /\ f[path].kind = "dir"
is_file(f, path) == exists(f, path) /\ f[path].kind = "file"
Put(f, path, entry) == [q \in DOMAIN f \cup {path} |-> IF q = path THEN entry ELSE f[q]]

FsOk(f) == [ok |-> TRUE, err |-> "", fs |-> f]
FsErr(f, e) == [ok |-> FALSE, err |-> e, fs |-> f]

\* why an entry cannot be made at path, or "" if it can
CreateError(f, path) ==
    IF ~exists(f, parent(path)) THEN "NotFound"
    ELSE IF ~is_dir(f, parent(path)) THEN "NotADirectory"
    ELSE IF ~f[parent(path)].writable THEN "PermissionDenied"
    ELSE ""

\* fs::create_dir: one directory, whose parent must exist
mkdir(f, path) ==
    IF exists(f, path) THEN FsErr(f, "AlreadyExists")
    ELSE IF CreateError(f, path) # "" THEN FsErr(f, CreateError(f, path))
    ELSE FsOk(Put(f, path, Dir(TRUE)))

RECURSIVE create_dir_all(_, _)
\* fs::create_dir_all: the directory and its missing ancestors
create_dir_all(f, path) ==
    IF path = <<>> THEN FsOk(f)
    ELSE LET first == mkdir(f, path)
         IN  IF first.ok THEN first
             ELSE IF first.err # "NotFound"
             THEN IF is_dir(f, path) THEN FsOk(f) ELSE first
             ELSE LET up == create_dir_all(f, parent(path))
                  IN  IF ~up.ok THEN up
                      ELSE LET second == mkdir(up.fs, path)
                           IN  IF second.ok \/ ~is_dir(up.fs, path)
                               THEN second
                               ELSE FsOk(up.fs)

\* File::create: a new empty file, or an existing file truncated
file_create(f, path) ==
    IF is_dir(f, path) THEN FsErr(f, "IsADirectory")
    ELSE IF is_file(f, path) THEN FsOk(Put(f, path, File(Empty)))
    ELSE IF CreateError(f, path) # "" THEN FsErr(f, CreateError(f, path))
    ELSE FsOk(Put(f, path, File(Empty)))

\* FsScreenshotIo::new
FsScreenshotIo(test_name, references_path, output_path) ==
    [test_name |-> test_name, references_path |-> references_path,
     output_path |-> output_path]

\* what a port operation returns and the filesystem it leaves
PortResult(ret, f) == [ret |-> ret, fs |-> f]

output_dir(io) == join(io.output_path, io.test_name)
reference_file(io) == join(io.references_path, with_png(io.test_name))
artifact_file(io, name) == join(output_dir(io), <<name>>)

\* mutant: fs::create_dir in place of fs::create_dir_all
Fs_prepare_output_CreateDir(io, f) ==
    LET made == mkdir(f, output_dir(io))
    IN  PortResult(IF made.ok THEN OkUnit ELSE Err(Io("OutputLocationUnavailable")), made.fs)

\* FsScreenshotIo::prepare_output
Fs_prepare_output(io, f) ==
    LET made == create_dir_all(f, output_dir(io))
    IN  PortResult(IF made.ok THEN OkUnit ELSE Err(Io("OutputLocationUnavailable")), made.fs)

\* FsScreenshotIo::load_reference
Fs_load_reference(io, f) ==
    PortResult(IF is_file(f, reference_file(io))
               THEN png_decode(f[reference_file(io)].content)
               ELSE Err(Io("FailedLoadingReferenceImage")),
               f)

\* FsScreenshotIo::write_image
Fs_write_image(io, f, name, img) ==
    LET file == file_create(f, artifact_file(io, name))
    IN  IF ~file.ok
        THEN PortResult(Err(Io("FailedWritingScreenshot")), file.fs)
        ELSE PortResult(OkUnit, Put(file.fs, artifact_file(io, name), File(png_encode(img))))

ActualPng == <<"actual", ".png">>
ExpectedPng == <<"expected", ".png">>
DiffPng == <<"diff", ".png">>
ArtifactNames == {ActualPng, ExpectedPng, DiffPng}

----------------------------------------------------------------------------
(* The inputs of the filesystem specifications *)

\* FsScreenshotIo::default's roots (lib.rs:109)
References == <<<<"references">>>>
TestOutput == <<<<"test_output">>>>

\* test names: plain, with a subdirectory, and ones that spell an artifact's path
TestNames ==
    {<<<<"a">>>>, <<<<"b">>>>, <<<<"a">>, <<"b">>>>, <<<<"a">>, <<"actual">>>>,
     <<<<"a">>, ActualPng>>, <<<<"a">>, ActualPng, <<"b">>>>}

\* the 1x1 images the filesystem specifications capture and store
FsImages == ImagesOf(<<1, 1>>)

RECURSIVE MakeDirs(_, _)
\* f with the directories down to path, where nothing is in their place
MakeDirs(f, path) ==
    IF path = <<>> \/ exists(f, path) THEN f
    ELSE Put(MakeDirs(f, parent(path)), path, Dir(TRUE))

\* f with a file of the given content at path, below directories
WithFile(f, path, content) == Put(MakeDirs(f, parent(path)), path, File(content))

\* the top level of the crate, alone
TopLevel(writable) == (<<>> :> Dir(writable))

----------------------------------------------------------------------------
(* prepare_output called several times in a row on one port *)

PrepInit ==
    /\ pc = "prepare"
    /\ captured_image = None /\ reference_image = None /\ result = None
    /\ diff = None /\ wrapper = None
    /\ calls = <<>>
    /\ runs = <<>>
    /\ \E name \in TestNames, refs \in {References, TestOutput} :
         ios = <<FsScreenshotIo(name, refs, TestOutput)>>
    /\ \E writable \in BOOLEAN, blocked \in {<<>>} \cup {TestOutput} \cup {output_dir(ios[1])},
          there \in BOOLEAN :
         /\ blocked # <<>> => ~there
         /\ fs = LET top == TopLevel(writable)
                     out == IF there THEN MakeDirs(top, TestOutput) ELSE top
                 IN  IF blocked = <<>> THEN out ELSE WithFile(out, blocked, Empty)

\* one more call of prepare_output
PrepareOutputCall ==
    /\ pc = "prepare"
    /\ Len(calls) < MaxPrepareCalls
    /\ LET r == Fs_prepare_output(ios[1], fs)
       IN  /\ calls' = Append(calls, Call("prepare_output", None, r.ret))
           /\ fs' = r.fs
    /\ UNCHANGED <<pc, captured_image, reference_image, result, diff, wrapper, ios, runs>>

PrepNext == PrepareOutputCall

PrepSpec == PrepInit /\ [][PrepNext]_vars

\* C14: a call of prepare_output that follows another one returns what that one
\* returned (Ok after Ok) and leaves the filesystem as the first call left it,
\* with the output directory in place after a call that returned Ok.
C14_PrepareOutputIdempotent ==
    [][(pc = "prepare" /\ calls' # calls)
        => /\ IsOk(calls'[Len(calls')].ret) => is_dir(fs', output_dir(ios[1]))
           /\ calls # <<>>
                => /\ calls'[Len(calls')].ret = calls[Len(calls)].ret
                   /\ fs' = fs]_vars

C14_Witness ==
    /\ pc = "prepare"
    /\ Len(calls) = 2
    /\ IsOk(calls[1].ret) /\ IsOk(calls[2].ret)
    /\ ios[1].test_name = <<<<"a">>, <<"b">>>>
    /\ is_dir(fs, <<<<"test_output">>, <<"a">>, <<"b">>>>)

----------------------------------------------------------------------------
(* Two invocations of screenshot_test over one filesystem, each with its own    *)
(* captor and its own FsScreenshotIo, their port calls interleaved.  runs[i] is *)
(* invocation i: its position, its captor's return, its locals, the paths it    *)
(* has written, read and made, and (alone) how it ends with the filesystem to   *)
(* itself.                                                                      *)

Invocations == {1, 2}

\* ScreenshotCaptor::capture_image of an invocation's own captor
CaptorReturns == {OkImage(img) : img \in FsImages} \cup {Err(CaptureError)}

NewRun(capture) ==
    [pc |-> "capture_image", capture |-> capture, captured_image |-> None,
     reference_image |-> None, result |-> None, written |-> {}, read |-> {},
     made |-> {}, alone |-> None]

RunResult(run, f) == [run |-> run, fs |-> f]

\* lib.rs:287: screenshot_captor.capture_image(x, y, width, height)
Run_capture_image(run, io, f) ==
    RunResult(IF IsOk(run.capture)
              THEN [run EXCEPT !.captured_image = Some(run.capture.value),
                               !.result = Some(OkUnit), !.pc = "load_reference"]
              ELSE [run EXCEPT !.result = Some(run.capture), !.pc = "prepare_output"],
              f)

\* lib.rs:288-293: the first and_then closure, over FsScreenshotIo
Run_load_reference(run, io, f) ==
    LET r == Fs_load_reference(io, f)
        seen == [run EXCEPT !.read = @ \cup {reference_file(io)}]
    IN  RunResult(IF IsOk(r.ret)
                  THEN [seen EXCEPT !.reference_image = Some(r.ret.value), !.pc = "compare"]
                  ELSE [seen EXCEPT !.result =
                                        Some(Err(NoReferenceScreenshot(run.captured_image[1]))),
                                    !.pc = "prepare_output"],
                  r.fs)

\* lib.rs:294-297: the second and_then closure
Run_compare(run, io, f) ==
    LET r == compare_screenshot_images(run.reference_image[1], run.captured_image[1])
    IN  RunResult([run EXCEPT !.result = Some(r),
                              !.pc = IF IsOk(r) THEN "done" ELSE "prepare_output"],
                  f)

\* lib.rs:266: screenshot_io.prepare_output()?
Run_prepare_output(run, io, f) ==
    LET r == Fs_prepare_output(io, f)
        did == [run EXCEPT !.made = @ \cup (DOMAIN r.fs \ DOMAIN f)]
    IN  RunResult(IF IsErr(r.ret)
                  THEN [did EXCEPT !.result = Some(r.ret), !.pc = "done"]
                  ELSE [did EXCEPT !.pc =
                            CASE run.result[1].error.type = "NoReferenceScreenshot"
                                   -> "write_actual_only"
                              [] run.result[1].error.type = "ScreenshotMismatch"
                                   -> "write_expected"
                              [] OTHER -> "done"],
                  r.fs)

\* a write_* call of handle_screenshot_error with its `?`
Run_write(run, io, f, name, img, next) ==
    LET r == Fs_write_image(io, f, name, img)
    IN  RunResult(IF IsErr(r.ret)
                  THEN [run EXCEPT !.result = Some(r.ret), !.pc = "done"]
                  ELSE [run EXCEPT !.written = @ \cup {artifact_file(io, name)},
                                   !.pc = next],
                  r.fs)

\* lib.rs:268-270: the NoReferenceScreenshot arm
Run_write_actual_only(run, io, f) ==
    Run_write(run, io, f, ActualPng, run.result[1].error.img, "done")

\* lib.rs:272: screenshot_io.write_expected(&expected)?
Run_write_expected(run, io, f) ==
    Run_write(run, io, f, ExpectedPng, run.result[1].error.expected, "write_actual")

\* lib.rs:273: screenshot_io.write_actual(&actual)?
Run_write_actual(run, io, f) ==
    Run_write(run, io, f, ActualPng, run.result[1].error.actual, "write_diff")

\* lib.rs:274: screenshot_io.write_diff(&diff_images(&actual, &expected))?
Run_write_diff(run, io, f) ==
    Run_write(run, io, f, DiffPng,
              diff_images(run.result[1].error.actual, run.result[1].error.expected),
              "done")

\* the next step of an invocation that has not ended
RunStep(run, io, f) ==
    CASE run.pc = "capture_image" -> Run_capture_image(run, io, f)
      [] run.pc = "load_reference" -> Run_load_reference(run, io, f)
      [] run.pc = "compare" -> Run_compare(run, io, f)
      [] run.pc = "prepare_output" -> Run_prepare_output(run, io, f)
      [] run.pc = "write_actual_only" -> Run_write_actual_only(run, io, f)
      [] run.pc = "write_expected" -> Run_write_expected(run, io, f)
      [] run.pc = "write_actual" -> Run_write_actual(run, io, f)
      [] run.pc = "write_diff" -> Run_write_diff(run, io, f)

RECURSIVE RunToEnd(_, _, _)
\* screenshot_test from start to return, nothing else touching the filesystem
RunToEnd(run, io, f) ==
    IF run.pc = "done" THEN RunResult(run, f)
    ELSE LET r == RunStep(run, io, f) IN RunToEnd(r.run, io, r.fs)

\* the artifacts of a port found in a filesystem
Artifacts(io, f) ==
    [name \in ArtifactNames |->
        IF is_file(f, artifact_file(io, name))
        THEN Some(f[artifact_file(io, name)].content)
        ELSE None]

\* a result and the artifacts left with it
Outcome(run, io, f) == [result |-> run.result[1], artifacts |-> Artifacts(io, f)]

FsInit ==
    /\ pc = "fs"
    /\ captured_image = None /\ reference_image = None /\ result = None
    /\ diff = None /\ wrapper = None
    /\ calls = <<>>
    /\ \E n1 \in TestNames, refs \in {References, TestOutput} : \E n2 \in TestNames \ {n1} :
         ios = <<FsScreenshotIo(n1, refs, TestOutput), FsScreenshotIo(n2, refs, TestOutput)>>
    /\ \E stored \in [Invocations -> {None} \cup {Some(img) : img \in FsImages}] :
         fs = LET roots == MakeDirs(MakeDirs(TopLevel(TRUE), References), TestOutput)
                  WithReference(f, i) ==
                      IF stored[i] = None \/ exists(f, reference_file(ios[i])) THEN f
                      ELSE WithFile(f, reference_file(ios[i]), png_encode(stored[i][1]))
              IN  WithReference(WithReference(roots, 1), 2)
    /\ \E capture \in [Invocations -> CaptorReturns] :
         runs = [i \in Invocations |->
                    LET end == RunToEnd(NewRun(capture[i]), ios[i], fs)
                    IN  [NewRun(capture[i]) EXCEPT
                            !.alone = Some(Outcome(end.run, ios[i], end.fs))]]

\* each action is one invocation taking the step its position names
FsCaptureImage ==
    \E i \in Invocations :
        /\ pc = "fs"
        /\ runs[i].pc = "capture_image"
        /\ LET r == Run_capture_image(runs[i], ios[i], fs)
           IN  runs' = [runs EXCEPT ![i] = r.run] /\ fs' = r.fs
        /\ UNCHANGED <<pc, captured_image, reference_image, result, diff, calls, wrapper, ios>>

FsLoadReference ==
    \E i \in Invocations :
        /\ pc = "fs"
        /\ runs[i].pc = "load_reference"
        /\ LET r == Run_load_reference(runs[i], ios[i], fs)
           IN  runs' = [runs EXCEPT ![i] = r.run] /\ fs' = r.fs
        /\ UNCHANGED <<pc, captured_image, reference_image, result, diff, calls, wrapper, ios>>

FsCompare ==
    \E i \in Invocations :
        /\ pc = "fs"
        /\ runs[i].pc = "compare"
        /\ LET r == Run_compare(runs[i], ios[i], fs)
           IN  runs' = [runs EXCEPT ![i] = r.run] /\ fs' = r.fs
        /\ UNCHANGED <<pc, captured_image, reference_image, result, diff, calls, wrapper, ios>>

FsPrepareOutput ==
    \E i \in Invocations :
        /\ pc = "fs"
        /\ runs[i].pc = "prepare_output"
        /\ LET r == Run_prepare_output(runs[i], ios[i], fs)
           IN  runs' = [runs EXCEPT ![i] = r.run] /\ fs' = r.fs
        /\ UNCHANGED <<pc, captured_image, reference_image, result, diff, calls, wrapper, ios>>

FsWriteActualOnly ==
    \E i \in Invocations :
        /\ pc = "fs"
        /\ runs[i].pc = "write_actual_only"
        /\ LET r == Run_write_actual_only(runs[i], ios[i], fs)
           IN  runs' = [runs EXCEPT ![i] = r.run] /\ fs' = r.fs
        /\ UNCHANGED <<pc, captured_image, reference_image, result, diff, calls, wrapper, ios>>

FsWriteExpected ==
    \E i \in Invocations :
        /\ pc = "fs"
        /\ runs[i].pc = "write_expected"
        /\ LET r == Run_write_expected(runs[i], ios[i], fs)
           IN  runs' = [runs EXCEPT ![i] = r.run] /\ fs' = r.fs
        /\ UNCHANGED <<pc, captured_image, reference_image, result, diff, calls, wrapper, ios>>

FsWriteActual ==
    \E i \in Invocations :
        /\ pc = "fs"
        /\ runs[i].pc = "write_actual"
        /\ LET r == Run_write_actual(runs[i], ios[i], fs)
           IN  runs' = [runs EXCEPT ![i] = r.run] /\ fs' = r.fs
        /\ UNCHANGED <<pc, captured_image, reference_image, result, diff, calls, wrapper, ios>>

FsWriteDiff ==
    \E i \in Invocations :
        /\ pc = "fs"
        /\ runs[i].pc = "write_diff"
        /\ LET r == Run_write_diff(runs[i], ios[i], fs)
           IN  runs' = [runs EXCEPT ![i] = r.run] /\ fs' = r.fs
        /\ UNCHANGED <<pc, captured_image, reference_image, result, diff, calls, wrapper, ios>>

FsNext ==
    \/ FsCaptureImage
    \/ FsLoadReference
    \/ FsCompare
    \/ FsPrepareOutput
    \/ FsWriteActualOnly
    \/ FsWriteExpected
    \/ FsWriteActual
    \/ FsWriteDiff

FsSpec == FsInit /\ [][FsNext]_vars

\* the paths invocation i has written, read or made
Touched(i) == runs[i].written \cup runs[i].read \cup runs[i].made

\* invocation i has ended as it ends alone
EndsAsAlone(i) ==
    runs[i].pc = "done" => Outcome(runs[i], ios[i], fs) = runs[i].alone[1]

\* the two invocations have kept out of each other's way so far
NoInterference ==
    \A i \in Invocations : \A j \in Invocations \ {i} :
        /\ runs[i].written \cap Touched(j) = {}
        /\ (runs[1].pc = "done" /\ runs[2].pc = "done") => EndsAsAlone(i)

\* an artifact file of one port is where the other port's output directory, or
\* a directory above it, has to be
ArtifactInTheWay(io, other) ==
    \E name \in ArtifactNames : IsPrefix(artifact_file(io, name), output_dir(other))

\* the ports keep apart: the references root and the output root are not one
\* inside the other, and no artifact file of one is in the way of the other
PortsApart ==
    /\ ~IsPrefix(ios[1].references_path, ios[1].output_path)
    /\ ~IsPrefix(ios[1].output_path, ios[1].references_path)
    /\ ~ArtifactInTheWay(ios[1], ios[2])
    /\ ~ArtifactInTheWay(ios[2], ios[1])

\* C20: two interleaved invocations with distinct test names under the same
\* roots never write a path the other has written, read or made, and when both
\* have ended each has the result and the artifacts it has when run alone.
C20_InvocationsDoNotInterfere == pc = "fs" => NoInterference

\* the same, for ports that keep apart
NoInterferenceWhenApart == (pc = "fs" /\ PortsApart) => NoInterference

\* both invocations end with artifacts written, one of them below the other's
\* output directory
BothEndedApart ==
    /\ pc = "fs" /\ PortsApart
    /\ runs[1].pc = "done" /\ runs[2].pc = "done"
    /\ runs[1].written # {} /\ runs[2].written # {}
    /\ IsPrefix(output_dir(ios[1]), output_dir(ios[2]))

----------------------------------------------------------------------------
\* C21: every invocation of screenshot_test, its port calls returning, ends;
\* it ends with exactly one of Ok and Err; it makes at most six port calls,
\* each one of capture_image, load_reference, prepare_output, write_expected,
\* write_actual and write_diff; and the comparator runs only after
\* capture_image and load_reference have both returned Ok, these being the only
\* calls made by then.
C21_EndsAfterAtMostSixCalls ==
    /\ <>(pc = "done")
    /\ [](/\ Len(calls) <= 6
          /\ \A i \in 1..Len(calls) : calls[i].op \in PortOps
          /\ pc = "done" => (IsOk(result[1]) # IsErr(result[1])))
    /\ [][(pc = "compare" /\ pc' # "compare")
            => /\ OpsCalled(PortOps) = <<"capture_image", "load_reference">>
               /\ AllOk(PortOps)
               /\ result' = Some(compare_screenshot_images(calls[2].ret.value,
                                                           calls[1].ret.value))]_vars

C21_Witness ==
    /\ pc = "done"
    /\ wrapper = Some("panic")
    /\ Len(calls) = 6
    /\ AllOk(PortOps)
    /\ result[1].error.type = "ScreenshotMismatch"
    /\ captured_image[1].width = 1 /\ reference_image[1].width = 2

====
